---- MODULE Spec2Model ----
(***************************************************************************)
(* Alert -> UAV scheduling and dispatch of the EVENT repository:           *)
(*   services/scheduler/app/tasks.py   the Celery tasks (scheduler tick,   *)
(*                                     battery monitor)                    *)
(*   services/api/app/main_mvp.py      alert ingest, manual sortie, UAV    *)
(*                                     PATCH                               *)
(*   services/api/app/mqtt_client.py   the API's bus client                *)
(*   services/uav_sim/app/simulated_uav.py  the UAV agent                  *)
(*   services/uav_sim/main.py          the stand-alone UAV simulator       *)
(*   services/api/app/websocket.py     the WebSocket fan-out hub           *)
(* The database tables are the shared state; every db.commit() is one      *)
(* atomic step, so a scheduler tick is a sequence of steps that other      *)
(* writers interleave with.                                                *)
(***************************************************************************)
EXTENDS Integers, Sequences, FiniteSets, TLC

\* ------------------------------------------------------------ bounds
NumUavs == 2
NumAlerts == 2
NumWorkers == 2
MaxMissions == 2
MaxApiAlerts == 1

UavIds == 1..NumUavs
AlertIds == 1..NumAlerts
Workers == 1..NumWorkers
TileIds == {"T10"}

\* SQL NULL / Python None in a nullable column (distinct from the number 0).
None == -999

\* ------------------------------------------------------------ helpers
Range(s) == {s[i] : i \in 1..Len(s)}

\* Every order in which a query without ORDER BY may return the rows S.
Perms(S) ==
    {f \in [1..Cardinality(S) -> S] : \A i, j \in 1..Cardinality(S) : f[i] = f[j] => i = j}

RemoveFirst(s, x) ==
    LET idx == CHOOSE i \in 1..Len(s) : s[i] = x /\ \A j \in 1..(i - 1) : s[j] # x
    IN  [k \in 1..(Len(s) - 1) |-> IF k < idx THEN s[k] ELSE s[k + 1]]

\* Python truthiness of an Optional[float]: None and 0.0 are both falsy.
Truthy(x) == x # None /\ x # 0

Abs(x) == IF x < 0 THEN -x ELSE x

\* sin^2(d/2) for d whole degrees, in millionths.
SinSqHalf(d) ==
    CASE d = 0 -> 0
      [] d = 5 -> 1903
      [] d = 10 -> 7596
      [] d = 15 -> 17037
      [] d = 20 -> 30154
      [] d = 25 -> 46846

\* cos(d) for d whole degrees, in thousandths.
Cos(d) ==
    CASE d = 0 -> 1000
      [] d = 5 -> 996
      [] d = 10 -> 985
      [] d = 15 -> 966
      [] d = 20 -> 940
      [] d = 25 -> 906

\* calculate_distance: the Haversine term
\*   a = sin^2(dlat/2) + cos(lat1) * cos(lat2) * sin^2(dlon/2)
\* in millionths.  The code returns R * 2 * asin(sqrt(a)), which is strictly
\* increasing in a on [0, 1]; its only consumer is the comparison
\* `distance < min_distance`, so the model keeps a.
calculate_distance(lat1, lon1, lat2, lon2) ==
    SinSqHalf(Abs(lat2 - lat1))
        + ((((Cos(Abs(lat1)) * Cos(Abs(lat2))) \div 1000) * SinSqHalf(Abs(lon2 - lon1))) \div 1000)

\* float('inf'): larger than every distance
Inf == 2000000

\* ------------------------------------------------------------ state
VARIABLES
    uavs,              \* table uavs: id -> row
    satellite_alerts,  \* table satellite_alerts (scheduler models.py): id -> row
    sat_alerts,        \* table sat_alerts (api models.py): sequence of rows
    missions,          \* table missions: sequence of rows
    tiles,             \* table tiles: tile_id -> status
    pc,                \* per Celery worker: position in process_pending_alerts
    pending_alerts,    \* per worker: the list queried at tasks.py:64
    available_uavs,    \* per worker: the list queried at tasks.py:69
    alert_idx,         \* per worker: position of `for alert in pending_alerts`
    assigned_count,    \* per worker: tasks.py:74
    broker_up,         \* the MQTT broker accepts connections
    connected,         \* MQTTClient.connected of the API's bus client
    out_messages,      \* QoS 1 messages the API's client library holds for resending
    broker_log,        \* messages the broker has accepted
    subscribed,        \* per UAV agent: on_connect has run (subscriptions made)
    inbox,             \* per UAV agent: messages delivered, on_message not yet run
    agent,             \* per UAV agent: [status, mission]
    api_inbox,         \* messages delivered to the API's bus client, on_message not yet run
    sim,               \* UAVSimulator (uav_sim/main.py): the object's fields
    sim_pc,            \* position of UAVSimulator.run: "loop", "sleep" or "dead"
    detections,        \* number of detections UAVSimulator has published
    suav,              \* SimulatedUAV (uav_sim/app/simulated_uav.py): the object's fields
    suav_pc,           \* "loop", or "raised" once loop() has raised
    delivered,         \* number of bus messages handed to the agents' on_message
    active_connections,    \* ConnectionManager.active_connections
    channel_subscriptions, \* ConnectionManager.channel_subscriptions
    last_ping,             \* ConnectionManager.last_ping
    endpoint,              \* per websocket: websocket_endpoint is "none", "running", "ended"
    socket_open,           \* per websocket: the peer still reads (send_json succeeds)
    now,                   \* wall clock, seconds
    accepted_at,           \* per websocket: when connect() accepted it
    failed_sends,          \* per websocket: send_json calls of a broadcast that raised
    sent,                  \* frames sent: <<websocket, type>> and <<websocket, channel, event>>
    bc,                    \* the broadcast_to_channel call in progress, if any
    events,                \* number of events broadcast so far
    astar,                 \* AStarPathfinder (algorithms.py) and its find_path call
    lawnmower,             \* the generate_lawnmower call in progress
    dubins                 \* the DubinsPathPlanner.plan_path call in progress

\* ids of the rows of satellite_alerts
Alerts == DOMAIN satellite_alerts

dbVars == <<uavs, satellite_alerts, sat_alerts, missions, tiles>>
tickVars == <<pc, pending_alerts, available_uavs, alert_idx, assigned_count>>
busVars == <<broker_up, connected, out_messages, broker_log, subscribed, inbox, agent>>
vars == <<uavs, satellite_alerts, sat_alerts, missions, tiles,
          pc, pending_alerts, available_uavs, alert_idx, assigned_count,
          broker_up, connected, out_messages, broker_log, subscribed, inbox, agent,
          api_inbox, sim, sim_pc, detections, suav, suav_pc, delivered,
          active_connections, channel_subscriptions, last_ping, endpoint, socket_open,
          now, accepted_at, failed_sends, sent, bc, events,
          astar, lawnmower, dubins>>

\* the telemetry ingestor's queue
ingestVars == <<api_inbox>>
\* the UAV agents of services/uav_sim
flightVars == <<sim, sim_pc, detections, suav, suav_pc, delivered>>
\* the WebSocket fan-out hub of services/api/app/websocket.py
hubVars == <<active_connections, channel_subscriptions, last_ping, endpoint, socket_open,
             now, accepted_at, failed_sends, sent, bc, events>>
\* the path planners of services/api/app/algorithms.py
planVars == <<astar, lawnmower, dubins>>
\* what scheduling, dispatch and the command bus leave alone
extVars == <<ingestVars, flightVars, hubVars, planVars>>

\* ------------------------------------------------------------ message bus
Topic(prefix, u, suffix) == [prefix |-> prefix, uav |-> u, suffix |-> suffix]

\* tasks.py:102  f"uav/{best_uav.id}/mission", payload carries alert.id
MissionMsg(u, a) == [topic |-> Topic("uav", u, "mission"), ref |-> a]
\* mqtt_client.py:89  f"commands/{uav_id}", payload carries mission_id
CommandMsg(u, m) == [topic |-> Topic("commands", u, ""), ref |-> m]
\* mqtt_client.py:71  "satellite/alerts", payload carries alert_id
AlertMsg(id) == [topic |-> Topic("satellite/alerts", 0, ""), ref |-> id]

\* The topics a UAV agent subscribes to in on_connect.
AgentTopics(u) == {Topic("uav", u, "mission"), Topic("uav", u, "command")}

\* The broker hands an accepted message to every agent whose subscription
\* matches its topic.
Route(m, box) ==
    [u \in UavIds |->
        IF subscribed[u] /\ m.topic \in AgentTopics(u) THEN box[u] \cup {m} ELSE box[u]]

\* MQTTClient.publish_alert / publish_command after the topic is built:
\* nothing is handed to the client library unless self.connected; a QoS 1
\* message handed over while the link is down stays with the library.
ApiPublish(m) ==
    IF connected
    THEN IF broker_up
         THEN /\ broker_log' = broker_log \cup {m}
              /\ inbox' = Route(m, inbox)
              /\ out_messages' = out_messages
         ELSE /\ out_messages' = out_messages \cup {m}
              /\ UNCHANGED <<broker_log, inbox>>
    ELSE UNCHANGED <<broker_log, inbox, out_messages>>

\* ------------------------------------------------------------ scheduler tick
\* The filter without its battery condition.
EligibleUAV_NoBattery(row) == row.status = "idle"

\* tasks.py:69-72: the filter of the available-UAV query
EligibleUAV(row) == row.status = "idle" /\ row.battery_level > 30

\* tasks.py:64-66: the filter of the pending-alert query
PendingAlert(row) == row.status = "pending"

\* tasks.py:84: `if uav.current_latitude and uav.current_longitude`
HasPosition(row) == Truthy(row.current_latitude) /\ Truthy(row.current_longitude)

\* tasks.py:80-91: scan of available_uavs in list order, strict `<`.
RECURSIVE find_nearest(_, _, _, _)
find_nearest(alert, us, best_uav, min_distance) ==
    IF us = <<>> THEN best_uav
    ELSE LET uav == uavs[Head(us)]
             distance == calculate_distance(alert.latitude, alert.longitude,
                                            uav.current_latitude, uav.current_longitude)
         IN  IF HasPosition(uav) /\ distance < min_distance
             THEN find_nearest(alert, Tail(us), Head(us), distance)
             ELSE find_nearest(alert, Tail(us), best_uav, min_distance)

\* tasks.py:61-74: open the session, run both queries, enter the loop.
TickStart(w) ==
    /\ pc[w] = "idle"
    /\ \E pa \in Perms({a \in Alerts : PendingAlert(satellite_alerts[a])}),
          au \in Perms({u \in UavIds : EligibleUAV(uavs[u])}) :
            /\ pending_alerts' = [pending_alerts EXCEPT ![w] = pa]
            /\ available_uavs' = [available_uavs EXCEPT ![w] = au]
    /\ alert_idx' = [alert_idx EXCEPT ![w] = 1]
    /\ assigned_count' = [assigned_count EXCEPT ![w] = 0]
    /\ pc' = [pc EXCEPT ![w] = "loop"]
    /\ UNCHANGED <<dbVars, busVars>>
    /\ UNCHANGED extVars

\* tasks.py:75-77: the loop ends when the list is exhausted or no UAV is left.
LoopEnds(w) == alert_idx[w] > Len(pending_alerts[w]) \/ available_uavs[w] = <<>>

\* tasks.py:75-113: one iteration of `for alert in pending_alerts`.
TickIter(w) ==
    /\ pc[w] = "loop"
    /\ IF LoopEnds(w)
       THEN /\ pc' = [pc EXCEPT ![w] = "done"]
            /\ UNCHANGED <<dbVars, busVars, pending_alerts, available_uavs,
                           alert_idx, assigned_count>>
       ELSE LET a == pending_alerts[w][alert_idx[w]]
                best_uav == find_nearest(satellite_alerts[a], available_uavs[w], None, Inf)
            IN  IF best_uav = None
                THEN /\ alert_idx' = [alert_idx EXCEPT ![w] = @ + 1]
                     /\ UNCHANGED <<dbVars, busVars, pc, pending_alerts,
                                    available_uavs, assigned_count>>
                ELSE \* lines 95-98: write and commit
                     /\ satellite_alerts' = [satellite_alerts EXCEPT
                            ![a].assigned_uav_id = best_uav, ![a].status = "assigned"]
                     /\ uavs' = [uavs EXCEPT ![best_uav].status = "assigned"]
                     /\ UNCHANGED <<sat_alerts, missions, tiles>>
                     /\ IF broker_up
                        THEN \* lines 101-113: connect, publish, go on
                             /\ broker_log' = broker_log \cup {MissionMsg(best_uav, a)}
                             /\ inbox' = Route(MissionMsg(best_uav, a), inbox)
                             /\ available_uavs' = [available_uavs EXCEPT
                                    ![w] = RemoveFirst(@, best_uav)]
                             /\ assigned_count' = [assigned_count EXCEPT ![w] = @ + 1]
                             /\ alert_idx' = [alert_idx EXCEPT ![w] = @ + 1]
                             /\ UNCHANGED <<pc, pending_alerts>>
                        ELSE \* get_mqtt_client raises at line 16: the task
                             \* fails after the commit; finally closes the session
                             /\ pc' = [pc EXCEPT ![w] = "idle"]
                             /\ pending_alerts' = [pending_alerts EXCEPT ![w] = <<>>]
                             /\ available_uavs' = [available_uavs EXCEPT ![w] = <<>>]
                             /\ alert_idx' = [alert_idx EXCEPT ![w] = 1]
                             /\ assigned_count' = [assigned_count EXCEPT ![w] = 0]
                             /\ UNCHANGED <<broker_log, inbox>>
                     /\ UNCHANGED <<broker_up, connected, out_messages, subscribed, agent>>
    /\ UNCHANGED extVars

\* tasks.py:115-118: log, return, close the session.
TickReturn(w) ==
    /\ pc[w] = "done"
    /\ pc' = [pc EXCEPT ![w] = "idle"]
    /\ pending_alerts' = [pending_alerts EXCEPT ![w] = <<>>]
    /\ available_uavs' = [available_uavs EXCEPT ![w] = <<>>]
    /\ alert_idx' = [alert_idx EXCEPT ![w] = 1]
    /\ assigned_count' = [assigned_count EXCEPT ![w] = 0]
    /\ UNCHANGED <<dbVars, busVars>>
    /\ UNCHANGED extVars

\* ------------------------------------------------------------ battery monitor
\* tasks.py:40: the rows monitor_uav_status acts on
BatteryLow(row) == row.battery_level < 20 /\ row.status # "charging"

\* tasks.py:33-56: monitor_uav_status.  With the broker reachable every low
\* UAV is set to charging (one commit each) and its status published on
\* uav/<id>/status, a topic nobody subscribes to.  With the broker down
\* get_mqtt_client raises after the first commit, so exactly one low UAV
\* (the first in query order) is changed.
MonitorUavStatus ==
    /\ \E u \in UavIds : BatteryLow(uavs[u])
    /\ IF broker_up
       THEN uavs' = [u \in UavIds |->
                IF BatteryLow(uavs[u]) THEN [uavs[u] EXCEPT !.status = "charging"]
                ELSE uavs[u]]
       ELSE \E first \in {u \in UavIds : BatteryLow(uavs[u])} :
                uavs' = [uavs EXCEPT ![first].status = "charging"]
    /\ UNCHANGED <<satellite_alerts, sat_alerts, missions, tiles, tickVars, busVars>>
    /\ UNCHANGED extVars

\* tasks.py:124  the rows simulate_battery_drain acts on
Flying(row) == row.status \in {"assigned", "flying"}

\* tasks.py:120-134: simulate_battery_drain.  Every UAV that is assigned or
\* flying loses 2 per cent, not below 0 (one commit each).
SimulateBatteryDrain ==
    /\ \E u \in UavIds : Flying(uavs[u])
    /\ uavs' = [u \in UavIds |->
            IF Flying(uavs[u])
            THEN [uavs[u] EXCEPT !.battery_level = IF @ - 2 > 0 THEN @ - 2 ELSE 0]
            ELSE uavs[u]]
    /\ UNCHANGED <<satellite_alerts, sat_alerts, missions, tiles, tickVars, busVars>>
    /\ UNCHANGED extVars

\* ------------------------------------------------------------ API
ApiPriorities == {8}
SortiePriorities == {5}
PatchStatuses == {"idle"}
PatchBatteries == {10}
\* a field left out of the PATCH body (exclude_unset)
Unset == "unset"

\* main_mvp.py:234-267: create_satellite_alert_v1.  The row goes to table
\* sat_alerts with the column default status "new".
CreateSatelliteAlertV1(tile_id, priority) ==
    /\ Len(sat_alerts) < MaxApiAlerts
    /\ sat_alerts' = Append(sat_alerts,
           [tile_id |-> tile_id, priority |-> priority, status |-> "new"])
    /\ ApiPublish(AlertMsg(Len(sat_alerts) + 1))
    /\ UNCHANGED <<uavs, satellite_alerts, missions, tiles, tickVars,
                   broker_up, connected, subscribed, agent>>
    /\ UNCHANGED extVars

\* main_mvp.py:352-429: assign_uav_sortie for an existing UAV and tile.
\* mission.id is still None when `uav.mission_id = mission.id` runs (the row
\* is not flushed before the commit), so the column stays NULL.
AssignUavSortie(uav_id, tile_id, priority) ==
    /\ Len(missions) < MaxMissions
    /\ missions' = Append(missions,
           [uav_id |-> uav_id, tile_id |-> tile_id, status |-> "assigned",
            priority |-> priority])
    /\ uavs' = [uavs EXCEPT ![uav_id].status = "assigned", ![uav_id].mission_id = None]
    /\ tiles' = [tiles EXCEPT ![tile_id] = "investigating"]
    /\ ApiPublish(CommandMsg(uav_id, Len(missions) + 1))
    /\ UNCHANGED <<satellite_alerts, sat_alerts, tickVars,
                   broker_up, connected, subscribed, agent>>
    /\ UNCHANGED extVars

\* main_mvp.py:174-186: update_uav_status, PATCH with the fields that are set.
UpdateUavStatus(uav_id, status, battery_level) ==
    /\ uavs' = [uavs EXCEPT
           ![uav_id].status = IF status = Unset THEN @ ELSE status,
           ![uav_id].battery_level = IF battery_level = None THEN @ ELSE battery_level]
    /\ uavs' # uavs
    /\ UNCHANGED <<satellite_alerts, sat_alerts, missions, tiles, tickVars, busVars>>
    /\ UNCHANGED extVars

\* ------------------------------------------------------------ bus clients
BrokerFail ==
    /\ broker_up
    /\ broker_up' = FALSE
    /\ UNCHANGED <<dbVars, tickVars, connected, out_messages, broker_log,
                   subscribed, inbox, agent>>
    /\ UNCHANGED extVars

BrokerRecover ==
    /\ ~broker_up
    /\ broker_up' = TRUE
    /\ UNCHANGED <<dbVars, tickVars, connected, out_messages, broker_log,
                   subscribed, inbox, agent>>
    /\ UNCHANGED extVars

\* mqtt_client.py:55-61 and 18-27: connect() reaches the broker and the
\* network loop calls on_connect with rc = 0.  Nothing clears the flag when
\* the link drops later (there is no on_disconnect handler).
ApiOnConnect ==
    /\ broker_up
    /\ ~connected
    /\ connected' = TRUE
    /\ UNCHANGED <<dbVars, tickVars, broker_up, out_messages, broker_log,
                   subscribed, inbox, agent>>
    /\ UNCHANGED extVars

\* The network loop started at mqtt_client.py:58 reconnects and resends the
\* QoS 1 messages the library still holds.
ApiResend ==
    /\ broker_up
    /\ out_messages # {}
    /\ \E m \in out_messages :
        /\ out_messages' = out_messages \ {m}
        /\ broker_log' = broker_log \cup {m}
        /\ inbox' = Route(m, inbox)
    /\ UNCHANGED <<dbVars, tickVars, broker_up, connected, subscribed, agent>>
    /\ UNCHANGED extVars

\* simulated_uav.py:21-35: connect() and on_connect with rc = 0.
AgentOnConnect(u) ==
    /\ broker_up
    /\ ~subscribed[u]
    /\ subscribed' = [subscribed EXCEPT ![u] = TRUE]
    /\ UNCHANGED <<dbVars, tickVars, broker_up, connected, out_messages,
                   broker_log, inbox, agent>>
    /\ UNCHANGED extVars

\* simulated_uav.py:37-60: on_message dispatches on the topic text.
AgentOnMessage(u) ==
    /\ \E m \in inbox[u] :
        /\ inbox' = [inbox EXCEPT ![u] = @ \ {m}]
        /\ IF m.topic.suffix = "mission"
           THEN \* handle_mission
                agent' = [agent EXCEPT ![u] = [status |-> "flying", mission |-> m.ref]]
           ELSE \* handle_command: no publisher sends {"type": "return"}
                UNCHANGED agent
    /\ UNCHANGED <<dbVars, tickVars, broker_up, connected, out_messages,
                   broker_log, subscribed>>
    /\ UNCHANGED extVars

\* ------------------------------------------------------------ telemetry
\* Telemetry payloads an agent publishes: latitude, longitude, battery.
TelemetryPayloads ==
    << [latitude |-> 6, longitude |-> 21, battery |-> 80],
       [latitude |-> 7, longitude |-> 22, battery |-> 70] >>

\* simulated_uav.py:84  f"uav/{self.uav_id}/telemetry", payload number i
TelemetryMsg(u, i) == [topic |-> Topic("uav", u, "telemetry"), ref |-> i]

\* mqtt_client.py:23-24: the filters the API's client subscribes to in
\* on_connect, "telemetry/#" and "detections/#": a topic matches when its
\* first level is that word.
ApiTopicMatches(topic) == topic.prefix \in {"telemetry", "detections"}

\* simulated_uav.py:74-84: publish_telemetry at QoS 0.  The broker hands the
\* message to the API's client when that client is connected (its on_connect
\* has subscribed) and a filter matches.
PublishTelemetry(u) ==
    /\ broker_up
    /\ subscribed[u]
    /\ \E i \in DOMAIN TelemetryPayloads :
        LET m == TelemetryMsg(u, i)
        IN  /\ m \notin broker_log
            /\ broker_log' = broker_log \cup {m}
            /\ api_inbox' = IF connected /\ ApiTopicMatches(m.topic)
                            THEN api_inbox \cup {m} ELSE api_inbox
    /\ UNCHANGED <<dbVars, tickVars, broker_up, connected, out_messages,
                   subscribed, inbox, agent, flightVars, hubVars, planVars>>

\* mqtt_client.py:29-48: on_message; handle_telemetry and handle_detection
\* are `pass`.
ApiOnMessage ==
    /\ \E m \in api_inbox : api_inbox' = api_inbox \ {m}
    /\ UNCHANGED <<dbVars, tickVars, busVars, flightVars, hubVars, planVars>>

\* ------------------------------------------------------------ UAV agents
\* Positions are in units of 0.0001 degree, batteries in tenths of a per cent.
\* main.py:106, simulated_uav.py:96: `distance > 0.001`
ArriveRadius == 10
\* main.py:22, uav_interface.py:16: battery = 100.0
BatteryFull == 1000
\* main.py:125: `if self.battery < 20`
LowBattery == 200
\* main.py:127: `self.battery + 5`
Recharge == 50
\* main.py:110: `self.battery - 0.5`
SimDrain == 5
\* simulated_uav.py:99: `self.battery - 0.1`
SuavDrain == 1

\* a key the JSON object does not have (dict.get returns None)
Absent == "absent"

\* A bus payload as on_message sees it: kind "text" is not JSON, "list" is
\* JSON that is not an object, "dict" is a JSON object with the keys the
\* handlers read.
Payload(kind, alert_id, lat, lon, type, command) ==
    [kind |-> kind, alert_id |-> alert_id, target_latitude |-> lat,
     target_longitude |-> lon, type |-> type, command |-> command]

\* self.mission = None
NoMission == Payload("none", None, None, None, Absent, Absent)
NotJson == Payload("text", None, None, None, Absent, Absent)
JsonList == Payload("list", None, None, None, Absent, Absent)
\* tasks.py:102-108: the mission the scheduler publishes
MissionTo(a, lat, lon) == Payload("dict", a, lat, lon, Absent, Absent)
MissionNoTarget(a) == Payload("dict", a, None, None, Absent, Absent)
CommandOfType(t) == Payload("dict", None, None, None, t, Absent)
CommandOfCommand(c) == Payload("dict", None, None, None, Absent, c)

MissionTargets == {<<24, 18>>, <<-30, 0>>}
MissionPayloads ==
    {NotJson, JsonList, MissionNoTarget(1)}
        \cup {MissionTo(1, t[1], t[2]) : t \in MissionTargets}
CommandPayloads ==
    {NotJson, CommandOfType("return"), CommandOfType("dance"),
     CommandOfCommand("return"), CommandOfCommand("land")}

\* Python truthiness of self.mission: None is falsy, the non-empty objects
\* and lists above are truthy.
MissionTruthy(m) == m.kind \in {"dict", "list"}

\* `x * 0.1` on the fixed-point grid, rounded to the nearest unit
Tenth(x) == IF x < 0 THEN -((5 - x) \div 10) ELSE (x + 5) \div 10

\* main.py:104, simulated_uav.py:94: distance > 0.001, compared as squares
StillMoving(self) ==
    LET delta_lat == self.mission.target_latitude - self.latitude
        delta_lon == self.mission.target_longitude - self.longitude
    IN  (delta_lat * delta_lat) + (delta_lon * delta_lon) > ArriveRadius * ArriveRadius

\* main.py:108-110, simulated_uav.py:97-99: 10 % of the way, battery drain
MoveStep(self, drain) ==
    LET delta_lat == self.mission.target_latitude - self.latitude
        delta_lon == self.mission.target_longitude - self.longitude
        b == self.battery - drain
    IN  [self EXCEPT !.latitude = @ + Tenth(delta_lat),
                     !.longitude = @ + Tenth(delta_lon),
                     !.battery = IF b < 0 THEN 0 ELSE b]

\* mission.get(...) raises AttributeError on a list; None - float raises
\* TypeError
MovementRaises(self) ==
    \/ self.mission.kind = "list"
    \/ self.mission.target_latitude = None
    \/ self.mission.target_longitude = None

\* main.py:40-67, simulated_uav.py:37-60: on_message, handle_mission and
\* handle_command.  json.loads raising, and .get raising on a list, are
\* caught by on_message; handle_mission has stored the payload by then.
on_message(self, topic, p) ==
    IF p.kind = "text" THEN self
    ELSE IF topic = "mission"
         THEN [self EXCEPT !.mission = p, !.status = "flying"]
         ELSE IF p.kind = "dict" /\ p.type = "return"
              THEN [self EXCEPT !.mission = NoMission, !.status = "idle"]
              ELSE self

\* main.py:124-129: recharge if the battery is low
RechargeIfLow(self) ==
    IF self.battery < LowBattery
    THEN LET b == IF self.battery + Recharge > BatteryFull THEN BatteryFull
                  ELSE self.battery + Recharge
         IN  [self EXCEPT !.battery = b,
                          !.status = IF b >= BatteryFull THEN "idle" ELSE "charging"]
    ELSE self

MaxDeliveries == 2

\* The paho network thread calls UAVSimulator.on_message.
SimOnMessage(topic, p) ==
    /\ delivered < MaxDeliveries
    /\ delivered' = delivered + 1
    /\ sim' = on_message(sim, topic, p)
    /\ UNCHANGED <<dbVars, tickVars, busVars, ingestVars, hubVars, planVars,
                   sim_pc, detections, suav, suav_pc>>

\* main.py:154-158 with 95-129: one pass of the run loop up to its sleep.
\* An exception other than KeyboardInterrupt leaves the loop and ends the
\* thread.  On arrival the method sleeps 2 s before it clears the mission.
SimulateMovement ==
    /\ sim_pc = "loop"
    /\ IF MissionTruthy(sim.mission) /\ sim.status = "flying"
       THEN IF MovementRaises(sim)
            THEN /\ sim_pc' = "dead"
                 /\ UNCHANGED <<sim, detections>>
            ELSE IF StillMoving(sim)
                 THEN /\ sim' = RechargeIfLow(MoveStep(sim, SimDrain))
                      /\ UNCHANGED <<sim_pc, detections>>
                 ELSE /\ sim' = [sim EXCEPT !.status = "investigating"]
                      /\ detections' = detections + 1
                      /\ sim_pc' = "sleep"
       ELSE /\ sim' = RechargeIfLow(sim)
            /\ UNCHANGED <<sim_pc, detections>>
    /\ UNCHANGED <<dbVars, tickVars, busVars, ingestVars, hubVars, planVars,
                   suav, suav_pc, delivered>>

\* main.py:120-129: after time.sleep(2)
SimAfterSleep ==
    /\ sim_pc = "sleep"
    /\ sim' = RechargeIfLow([sim EXCEPT !.mission = NoMission, !.status = "idle"])
    /\ sim_pc' = "loop"
    /\ UNCHANGED <<dbVars, tickVars, busVars, ingestVars, hubVars, planVars,
                   detections, suav, suav_pc, delivered>>

\* The paho network thread calls SimulatedUAV.on_message.
SuavOnMessage(topic, p) ==
    /\ delivered < MaxDeliveries
    /\ delivered' = delivered + 1
    /\ suav' = on_message(suav, topic, p)
    /\ UNCHANGED <<dbVars, tickVars, busVars, ingestVars, hubVars, planVars,
                   sim, sim_pc, detections, suav_pc>>

\* simulated_uav.py:86-104: loop().  When it raises, publish_telemetry at
\* line 104 is not reached, in this call or in any later one (the mission
\* that made it raise stays).
SuavLoop ==
    /\ suav_pc = "loop"
    /\ IF MissionTruthy(suav.mission) /\ suav.status = "flying"
       THEN IF MovementRaises(suav)
            THEN /\ suav_pc' = "raised"
                 /\ UNCHANGED suav
            ELSE /\ suav' = IF StillMoving(suav) THEN MoveStep(suav, SuavDrain) ELSE suav
                 /\ UNCHANGED suav_pc
       ELSE UNCHANGED <<suav, suav_pc>>
    /\ UNCHANGED <<dbVars, tickVars, busVars, ingestVars, hubVars, planVars,
                   sim, sim_pc, detections, delivered>>

\* ------------------------------------------------------------ WebSocket hub
NumSockets == 2
MaxEvents == 2
MaxTime == 90

WebSockets == 1..NumSockets

\* websocket.py:32-38: the keys of channel_subscriptions
Channels == {"telemetry", "detections", "alerts", "missions", "system"}

\* `channels` lists of subscribe and unsubscribe frames
ChannelLists == {<<"telemetry">>, <<"alerts", "bogus">>}

\* auth frames: a token decode_access_token accepts, one it rejects, none
Tokens == {"valid", "expired", "missing"}

\* websocket.py:187: asyncio.sleep(30)
HeartbeatInterval == 30
\* websocket.py:190
timeout_threshold == 60

Restrict(f, D) == [x \in D |-> f[x]]

\* auth.py:116-129: decode_access_token returns the payload of a token that
\* verifies and raises AuthenticationError otherwise.
decode_access_token(token) == token = "valid"

\* The subscribe frame without its authentication check.
IsAuthenticated_Any(websocket) == TRUE

\* websocket.py:252: active_connections[websocket].get("authenticated")
IsAuthenticated(websocket) == active_connections[websocket].authenticated

\* websocket.py:53-67: disconnect, applied to each websocket of S.
disconnect(S) ==
    LET known == S \cap DOMAIN active_connections
    IN  /\ channel_subscriptions' =
               [ch \in Channels |-> channel_subscriptions[ch]
                    \ {ws \in known : ch \in active_connections[ws].channels}]
        /\ active_connections' =
               Restrict(active_connections, DOMAIN active_connections \ S)
        /\ last_ping' = Restrict(last_ping, DOMAIN last_ping \ S)

\* websocket.py:116-122: send_personal_message swallows a failing send; of
\* the replies the log keeps the error frames.
SendError(websocket) ==
    sent' = IF socket_open[websocket] THEN sent \cup {<<websocket, "error", 0>>} ELSE sent

\* what is not a field of the ConnectionManager or a socket
hubFrame == <<dbVars, tickVars, busVars, ingestVars, flightVars, planVars>>

\* websocket.py:230 and 43-51: the endpoint accepts the connection.
Connect(websocket) ==
    /\ endpoint[websocket] = "none"
    /\ endpoint' = [endpoint EXCEPT ![websocket] = "running"]
    /\ active_connections' =
           (websocket :> [authenticated |-> FALSE, channels |-> {}]) @@ active_connections
    /\ accepted_at' = (websocket :> now) @@ accepted_at
    /\ UNCHANGED <<channel_subscriptions, last_ping, socket_open, now, failed_sends,
                   sent, bc, events, hubFrame>>

\* websocket.py:238-248 and 69-90: an auth frame.  For a socket the manager
\* has already dropped, line 73 raises KeyError, which the endpoint's
\* `except Exception` turns into disconnect and the end of the handler.
AuthFrame(websocket, token) ==
    /\ endpoint[websocket] = "running"
    /\ IF token = "missing"
       THEN /\ SendError(websocket)
            /\ UNCHANGED <<active_connections, channel_subscriptions, last_ping, endpoint>>
       ELSE IF ~decode_access_token(token)
            THEN UNCHANGED <<active_connections, channel_subscriptions, last_ping,
                             endpoint, sent>>
            ELSE IF websocket \in DOMAIN active_connections
                 THEN /\ active_connections' =
                            [active_connections EXCEPT ![websocket].authenticated = TRUE]
                      /\ UNCHANGED <<channel_subscriptions, last_ping, endpoint, sent>>
                 ELSE /\ disconnect({websocket})
                      /\ endpoint' = [endpoint EXCEPT ![websocket] = "ended"]
                      /\ UNCHANGED sent
    /\ UNCHANGED <<socket_open, now, accepted_at, failed_sends, bc, events, hubFrame>>

\* websocket.py:250-265 and 92-102: a subscribe frame.
SubscribeFrame(websocket, channels) ==
    /\ endpoint[websocket] = "running"
    /\ IF websocket \notin DOMAIN active_connections
       THEN \* KeyError at line 252
            /\ disconnect({websocket})
            /\ endpoint' = [endpoint EXCEPT ![websocket] = "ended"]
            /\ UNCHANGED sent
       ELSE IF ~IsAuthenticated(websocket)
            THEN /\ SendError(websocket)
                 /\ UNCHANGED <<active_connections, channel_subscriptions, last_ping,
                                endpoint>>
            ELSE LET known == Range(channels) \cap Channels
                 IN  /\ channel_subscriptions' =
                            [ch \in Channels |->
                                IF ch \in known
                                THEN channel_subscriptions[ch] \cup {websocket}
                                ELSE channel_subscriptions[ch]]
                     /\ active_connections' =
                            [active_connections EXCEPT ![websocket].channels = @ \cup known]
                     /\ UNCHANGED <<last_ping, endpoint, sent>>
    /\ UNCHANGED <<socket_open, now, accepted_at, failed_sends, bc, events, hubFrame>>

\* websocket.py:267-275 and 104-114: an unsubscribe frame.
UnsubscribeFrame(websocket, channels) ==
    /\ endpoint[websocket] = "running"
    /\ IF websocket \notin DOMAIN active_connections
       THEN UNCHANGED <<active_connections, channel_subscriptions>>
       ELSE LET known == Range(channels) \cap Channels
            IN  /\ channel_subscriptions' =
                       [ch \in Channels |->
                           IF ch \in known
                           THEN channel_subscriptions[ch] \ {websocket}
                           ELSE channel_subscriptions[ch]]
                /\ active_connections' =
                       [active_connections EXCEPT ![websocket].channels = @ \ known]
    /\ UNCHANGED <<last_ping, endpoint, socket_open, now, accepted_at, failed_sends,
                   sent, bc, events, hubFrame>>

\* websocket.py:277-279 and 179-182: a ping frame.
PingFrame(websocket) ==
    /\ endpoint[websocket] = "running"
    /\ last_ping' = (websocket :> now) @@ last_ping
    /\ UNCHANGED <<active_connections, channel_subscriptions, endpoint, socket_open, now,
                   accepted_at, failed_sends, sent, bc, events, hubFrame>>

\* websocket.py:299-301: receive_json raises WebSocketDisconnect.
ReceiveDisconnect(websocket) ==
    /\ endpoint[websocket] = "running"
    /\ disconnect({websocket})
    /\ endpoint' = [endpoint EXCEPT ![websocket] = "ended"]
    /\ socket_open' = [socket_open EXCEPT ![websocket] = FALSE]
    /\ UNCHANGED <<now, accepted_at, failed_sends, sent, bc, events, hubFrame>>

\* The peer stops reading: send_json on this socket raises from now on.
PeerStalls(websocket) ==
    /\ endpoint[websocket] = "running"
    /\ socket_open[websocket]
    /\ socket_open' = [socket_open EXCEPT ![websocket] = FALSE]
    /\ UNCHANGED <<active_connections, channel_subscriptions, last_ping, endpoint, now,
                   accepted_at, failed_sends, sent, bc, events, hubFrame>>

NoBroadcast ==
    [running |-> FALSE, channel |-> "", event |-> 0, size |-> 0, initial |-> {},
     visited |-> {}, disconnected |-> {}]

\* websocket.py:133-137: `await websocket.send_json(message)` inside the
\* try, for the member the iterator has yielded; call is the record of the
\* broadcast so far.
SendJson(websocket, call) ==
    IF socket_open[websocket]
    THEN /\ sent' = sent \cup {<<websocket, call.channel, call.event>>}
         /\ bc' = [call EXCEPT !.visited = @ \cup {websocket}]
         /\ UNCHANGED failed_sends
    ELSE /\ failed_sends' = [failed_sends EXCEPT ![websocket] = @ + 1]
         /\ bc' = [call EXCEPT !.visited = @ \cup {websocket},
                               !.disconnected = @ \cup {websocket}]
         /\ UNCHANGED sent

\* websocket.py:124-134: broadcast_to_channel up to its first await: the set
\* iterator is made and yields its first member, if there is one.  Without
\* a subscriber the call returns at once.
BroadcastBegin(channel) ==
    /\ ~bc.running
    /\ events < MaxEvents
    /\ events' = events + 1
    /\ IF channel_subscriptions[channel] = {}
       THEN UNCHANGED <<bc, sent, failed_sends>>
       ELSE \E websocket \in channel_subscriptions[channel] :
                SendJson(websocket,
                    [running |-> TRUE, channel |-> channel, event |-> events + 1,
                     size |-> Cardinality(channel_subscriptions[channel]),
                     initial |-> channel_subscriptions[channel],
                     visited |-> {}, disconnected |-> {}])
    /\ UNCHANGED <<active_connections, channel_subscriptions, last_ping, endpoint,
                   socket_open, now, accepted_at, hubFrame>>

\* The set iterator raises RuntimeError when the set has changed size since
\* the iterator was made.
SetChangedSize == Cardinality(channel_subscriptions[bc.channel]) # bc.size

\* websocket.py:132-137: the previous send has returned; the iterator
\* yields a member not yet visited and the coroutine awaits send_json on it.
BroadcastSend ==
    /\ bc.running
    /\ ~SetChangedSize
    /\ \E websocket \in channel_subscriptions[bc.channel] \ bc.visited :
            SendJson(websocket, bc)
    /\ UNCHANGED <<active_connections, channel_subscriptions, last_ping, endpoint,
                   socket_open, now, accepted_at, events, hubFrame>>

\* websocket.py:132 and 139-141: the iterator is exhausted (every member
\* that was there from the start has been visited), then the sockets whose
\* send raised are disconnected.
BroadcastEnd ==
    /\ bc.running
    /\ ~SetChangedSize
    /\ (bc.initial \cap channel_subscriptions[bc.channel]) \subseteq bc.visited
    /\ disconnect(bc.disconnected)
    /\ bc' = NoBroadcast
    /\ UNCHANGED <<endpoint, socket_open, now, accepted_at, failed_sends, sent, events,
                   hubFrame>>

\* websocket.py:132: RuntimeError("Set changed size during iteration")
\* leaves broadcast_to_channel before the clean-up loop.
BroadcastRaises ==
    /\ bc.running
    /\ SetChangedSize
    /\ bc' = NoBroadcast
    /\ UNCHANGED <<active_connections, channel_subscriptions, last_ping, endpoint,
                   socket_open, now, accepted_at, failed_sends, sent, events, hubFrame>>

\* websocket.py:184-203: one pass of start_heartbeat_monitor: sleep 30 s,
\* then close and disconnect every socket of last_ping that is overdue.
HeartbeatMonitor ==
    /\ now < MaxTime
    /\ now' = now + HeartbeatInterval
    /\ LET disconnected ==
               {ws \in DOMAIN last_ping : now' - last_ping[ws] > timeout_threshold}
       IN  /\ disconnect(disconnected)
           /\ socket_open' = [ws \in WebSockets |->
                                 IF ws \in disconnected THEN FALSE ELSE socket_open[ws]]
    /\ UNCHANGED <<endpoint, accepted_at, failed_sends, sent, bc, events, hubFrame>>

\* ------------------------------------------------------------ path planners
\* services/api/app/algorithms.py.  Costs and distances of the grid search
\* are fixed-point numbers, in thousandths of a cell.

\* 1.0 in thousandths
Unit == 1000

\* side of the small grids searched from every cell to every cell
SmallSide == 3

\* algorithms.py:122  step cost of a cardinal move, 1.0
CardinalCost == Unit
\* algorithms.py:122  step cost of a diagonal move, 1.4
DiagonalCost == 1400

RECURSIVE SqrtBetween(_, _, _)
\* the largest r of lo..hi with r * r <= n
SqrtBetween(n, lo, hi) ==
    IF lo >= hi
    THEN lo
    ELSE LET mid == (lo + hi + 1) \div 2
         IN  IF mid * mid <= n
             THEN SqrtBetween(n, mid, hi)
             ELSE SqrtBetween(n, lo, mid - 1)

\* np.sqrt, rounded down; 46340 is the largest root of a 32-bit number
Sqrt(n) == SqrtBetween(n, 0, 46340)

\* came_from[start] = None (algorithms.py:109)
NoCell == <<None, None>>
\* find_path returns None (algorithms.py:134)
NoPath == <<>>

\* algorithms.py:76-78  Euclidean distance, in thousandths
heuristic(a, b) ==
    Sqrt(CardinalCost * CardinalCost
            * ((a[1] - b[1]) * (a[1] - b[1]) + (a[2] - b[2]) * (a[2] - b[2])))

\* algorithms.py:80-98  the free in-bounds cells among the eight around pos
get_neighbors(self, pos) ==
    {n \in {<<pos[1] + dx, pos[2] + dy>> : dx \in -1..1, dy \in -1..1} :
        /\ n # pos
        /\ 0 <= n[1] /\ n[1] < self.width
        /\ 0 <= n[2] /\ n[2] < self.height
        /\ n \notin self.obstacles}

\* algorithms.py:120-122
step_cost(current, next_pos) ==
    IF Abs(next_pos[1] - current[1]) + Abs(next_pos[2] - current[2]) = 2
    THEN DiagonalCost
    ELSE CardinalCost

\* order of the heap entries (priority, (x, y)): Python's tuple comparison
HeapLeq(e, f) ==
    \/ e[1] < f[1]
    \/ e[1] = f[1] /\ e[2] < f[2]
    \/ e[1] = f[1] /\ e[2] = f[2] /\ e[3] <= f[3]

\* heapq.heappop (algorithms.py:113): the least entry
HeapMin(frontier) == CHOOSE e \in frontier : \A f \in frontier : HeapLeq(e, f)

\* algorithms.py:63-74  AStarPathfinder(grid_width, grid_height, obstacles),
\* no find_path call made yet
AStarPathfinder(grid_width, grid_height, obstacles) ==
    [width |-> grid_width, height |-> grid_height, obstacles |-> obstacles,
     start |-> NoCell, goal |-> NoCell, frontier |-> {},
     came_from |-> [c \in {} |-> NoCell], cost_so_far |-> [c \in {} |-> 0],
     pc |-> "idle", path |-> NoPath]

\* no pathfinder constructed
NoPathfinder == [AStarPathfinder(0, 0, {}) EXCEPT !.pc = "none"]

\* algorithms.py:100-110  find_path(start, goal) up to its loop
FindPath(start, goal) ==
    /\ astar.pc \in {"idle", "done"}
    /\ astar' = [astar EXCEPT !.start = start, !.goal = goal,
                              !.frontier = {<<0, start[1], start[2]>>},
                              !.came_from = [c \in {start} |-> NoCell],
                              !.cost_so_far = [c \in {start} |-> 0],
                              !.pc = "loop", !.path = NoPath]
    /\ UNCHANGED <<dbVars, tickVars, busVars, ingestVars, flightVars, hubVars,
                   lawnmower, dubins>>

\* algorithms.py:112-131  one pass of `while frontier`
FindPathIter ==
    /\ astar.pc = "loop"
    /\ IF astar.frontier = {}
       THEN astar' = [astar EXCEPT !.pc = "after"]
       ELSE LET e == HeapMin(astar.frontier)
                current == <<e[2], e[3]>>
                rest == astar.frontier \ {e}
                new_cost(n) == astar.cost_so_far[current] + step_cost(current, n)
                improved == {n \in get_neighbors(astar, current) :
                                \/ n \notin DOMAIN astar.cost_so_far
                                \/ new_cost(n) < astar.cost_so_far[n]}
                cells == DOMAIN astar.cost_so_far \cup improved
            IN  IF current = astar.goal
                THEN astar' = [astar EXCEPT !.frontier = rest, !.pc = "after"]
                ELSE astar' = [astar EXCEPT
                        !.frontier = rest \cup
                            {<<new_cost(n) + heuristic(n, astar.goal), n[1], n[2]>> :
                                n \in improved},
                        !.cost_so_far = [c \in cells |->
                            IF c \in improved THEN new_cost(c) ELSE astar.cost_so_far[c]],
                        !.came_from = [c \in cells |->
                            IF c \in improved THEN current ELSE astar.came_from[c]]]
    /\ UNCHANGED <<dbVars, tickVars, busVars, ingestVars, flightVars, hubVars,
                   lawnmower, dubins>>

RECURSIVE PathTo(_, _)
\* algorithms.py:137-143  the chain of came_from from the start to cell c
PathTo(came_from, c) ==
    IF c = NoCell THEN <<>> ELSE Append(PathTo(came_from, came_from[c]), c)

\* algorithms.py:133-143  the return of find_path
FindPathReturn ==
    /\ astar.pc = "after"
    /\ astar' = [astar EXCEPT
            !.pc = "done",
            !.path = IF astar.goal \notin DOMAIN astar.came_from
                     THEN NoPath
                     ELSE PathTo(astar.came_from, astar.goal)]
    /\ UNCHANGED <<dbVars, tickVars, busVars, ingestVars, flightVars, hubVars,
                   lawnmower, dubins>>

\* the cells of a grid
GridCells(self) == (0..(self.width - 1)) \X (0..(self.height - 1))

\* Two corridors of free cells from (0, 2) to (20, 16) in a 21 x 18 grid:
\* one runs diagonally up and ends in a zigzag, the other goes down and along
\* the lower edge first and then runs diagonally up.
CorridorCells ==
    {<<i, i + 2>> : i \in 0..15}
        \cup {<<16, 16>>, <<17, 15>>, <<18, 16>>, <<19, 15>>, <<20, 16>>}
        \cup {<<0, 1>>} \cup {<<i, 0>> : i \in 1..4}
        \cup {<<4 + j, j>> : j \in 1..14}

CorridorGrid ==
    LET open == [width |-> 21, height |-> 18, obstacles |-> {}]
    IN  AStarPathfinder(21, 18, GridCells(open) \ CorridorCells)

\* Pathfinders as constructed: small grids that are empty, have one blocked
\* cell or a wall across; a 5 x 5 grid whose corner (4, 4) is enclosed; the
\* corridors.
Pathfinders ==
    {AStarPathfinder(SmallSide, SmallSide, o) :
        o \in {{}, {<<1, 1>>}, {<<0, 0>>}, {<<1, y>> : y \in 0..(SmallSide - 1)}}}
        \cup {AStarPathfinder(5, 5, {<<3, 3>>, <<3, 4>>, <<4, 3>>}), CorridorGrid}

\* start and goal cells asked for: every cell of a small grid, else the
\* cells (0, 2), (width - 1, height - 2) and the far corner
Endpoints(self) ==
    IF self.width <= SmallSide
    THEN GridCells(self)
    ELSE {<<0, 2>>, <<self.width - 1, self.height - 2>>,
          <<self.width - 1, self.height - 1>>}

\* pattern heights, row spacings and widths asked for, in metres
LawnHeights == {50, 100, 120, 150}
LawnSpacings == {25, 40, 50}
LawnWidths == {100, 200}

\* no generate_lawnmower call made yet
NoPattern ==
    [width_m |-> 0, height_m |-> 0, spacing_m |-> 0, num_passes |-> 0, i |-> 0,
     waypoints |-> <<>>, pc |-> "idle"]

\* algorithms.py:398-405  generate_lawnmower up to its loop;
\* int(height_m / spacing_m) truncates the quotient of two positive numbers
GenerateLawnmower(width_m, height_m, spacing_m) ==
    /\ lawnmower.pc \in {"idle", "done"}
    /\ lawnmower' = [width_m |-> width_m, height_m |-> height_m,
                     spacing_m |-> spacing_m,
                     num_passes |-> (height_m \div spacing_m) + 1,
                     i |-> 0, waypoints |-> <<>>, pc |-> "loop"]
    /\ UNCHANGED <<dbVars, tickVars, busVars, ingestVars, flightVars, hubVars,
                   astar, dubins>>

\* algorithms.py:407-432  one pass of `for i in range(num_passes)`: the two
\* end points of row i.  A waypoint is held as its offsets from the centre in
\* half metres (y_offset, x_start, x_end); lines 415-417 divide them by the
\* positive number of metres per degree and add the centre.
LawnmowerPass ==
    /\ lawnmower.pc = "loop"
    /\ lawnmower.i < lawnmower.num_passes
    /\ LET i == lawnmower.i
           y_offset == (2 * i * lawnmower.spacing_m) - lawnmower.height_m
           x_start == IF i % 2 = 0 THEN -lawnmower.width_m ELSE lawnmower.width_m
           x_end == -x_start
       IN  lawnmower' = [lawnmower EXCEPT
                !.i = i + 1,
                !.waypoints = @ \o <<[y |-> y_offset, x |-> x_start],
                                     [y |-> y_offset, x |-> x_end]>>]
    /\ UNCHANGED <<dbVars, tickVars, busVars, ingestVars, flightVars, hubVars,
                   astar, dubins>>

\* algorithms.py:434  return waypoints
LawnmowerReturn ==
    /\ lawnmower.pc = "loop"
    /\ lawnmower.i >= lawnmower.num_passes
    /\ lawnmower' = [lawnmower EXCEPT !.pc = "done"]
    /\ UNCHANGED <<dbVars, tickVars, busVars, ingestVars, flightVars, hubVars,
                   astar, dubins>>

\* Angles are fixed-point numbers in thousandths of a radian, lengths in
\* thousandths of a metre.
\* math.pi in thousandths
Pi == 3142
TwoPi == 2 * Pi
HalfPi == Pi \div 2

\* algorithms.py:220-222  theta - 2 pi floor(theta / 2 pi)
mod2pi(theta) == theta - TwoPi * (theta \div TwoPi)

\* sine of an angle of 0..pi/4, by its power series
SinSmall(x) ==
    LET x2 == (x * x) \div Unit
        t3 == ((x * x2) \div Unit) \div 6
        t5 == ((t3 * x2) \div Unit) \div 20
        t7 == ((t5 * x2) \div Unit) \div 42
    IN  x - t3 + t5 - t7

\* cosine of an angle of 0..pi/4, by its power series
CosSmall(x) ==
    LET x2 == (x * x) \div Unit
        t2 == x2 \div 2
        t4 == ((t2 * x2) \div Unit) \div 12
        t6 == ((t4 * x2) \div Unit) \div 30
    IN  Unit - t2 + t4 - t6

\* sine of an angle of 0..pi/2
SinQuadrant(x) == IF 2 * x <= HalfPi THEN SinSmall(x) ELSE CosSmall(HalfPi - x)

\* math.sin
Sin(theta) ==
    LET x == mod2pi(theta)
    IN  IF x <= HalfPi THEN SinQuadrant(x)
        ELSE IF x <= Pi THEN SinQuadrant(Pi - x)
        ELSE IF x <= Pi + HalfPi THEN -SinQuadrant(x - Pi)
        ELSE -SinQuadrant(TwoPi - x)

\* math.cos
Cosine(theta) == Sin(theta + HalfPi)

RECURSIVE AtanBetween(_, _, _, _)
\* the largest angle a of lo..hi with tan(a) <= y / x, for x, y >= 0
AtanBetween(y, x, lo, hi) ==
    IF lo >= hi
    THEN lo
    ELSE LET mid == (lo + hi + 1) \div 2
         IN  IF SinQuadrant(mid) * x <= SinQuadrant(HalfPi - mid) * y
             THEN AtanBetween(y, x, mid, hi)
             ELSE AtanBetween(y, x, lo, mid - 1)

\* math.atan2
Atan2(y, x) ==
    IF x = 0 /\ y = 0
    THEN 0
    ELSE LET a == AtanBetween(Abs(y), Abs(x), 0, HalfPi)
         IN  IF x >= 0
             THEN IF y >= 0 THEN a ELSE -a
             ELSE IF y >= 0 THEN Pi - a ELSE a - Pi

RECURSIVE AcosBetween(_, _, _)
\* the largest angle a of lo..hi with cos(a) >= v
AcosBetween(v, lo, hi) ==
    IF lo >= hi
    THEN lo
    ELSE LET mid == (lo + hi + 1) \div 2
         IN  IF Cosine(mid) >= v
             THEN AcosBetween(v, mid, hi)
             ELSE AcosBetween(v, lo, mid - 1)

\* math.acos
Acos(v) == AcosBetween(v, 0, Pi)

Max(a, b) == IF a >= b THEN a ELSE b

\* a family returns None
NoDubinsPath == [path_type |-> "None", lengths |-> <<0, 0, 0>>, total_length |-> 0]

\* algorithms.py:239-243 and alike: DubinsPath(path_type, (t, p, q), (t + p + q) * rho)
DubinsPath(self, path_type, t, p, q) ==
    [path_type |-> path_type, lengths |-> <<t, p, q>>,
     total_length |-> ((t + p + q) * self.rho) \div Unit]

\* algorithms.py:224-244
LSL(self, alpha, beta, d) ==
    LET sa == Sin(alpha)
        sb == Sin(beta)
        ca == Cosine(alpha)
        cb == Cosine(beta)
        c_ab == Cosine(alpha - beta)
        tmp == 2 * Unit + ((d * d) \div Unit) - 2 * c_ab + ((2 * d * (sa - sb)) \div Unit)
        a == Atan2(cb - ca, d + sa - sb)
    IN  IF tmp >= 0
        THEN DubinsPath(self, "LSL", mod2pi(a - alpha), Sqrt(Max(0, tmp) * Unit),
                        mod2pi(beta - a))
        ELSE NoDubinsPath

\* algorithms.py:246-266
RSR(self, alpha, beta, d) ==
    LET sa == Sin(alpha)
        sb == Sin(beta)
        ca == Cosine(alpha)
        cb == Cosine(beta)
        c_ab == Cosine(alpha - beta)
        tmp == 2 * Unit + ((d * d) \div Unit) - 2 * c_ab + ((2 * d * (sb - sa)) \div Unit)
        a == Atan2(ca - cb, d - sa + sb)
    IN  IF tmp >= 0
        THEN DubinsPath(self, "RSR", mod2pi(alpha - a), Sqrt(Max(0, tmp) * Unit),
                        mod2pi(a - beta))
        ELSE NoDubinsPath

\* algorithms.py:268-288
LSR(self, alpha, beta, d) ==
    LET sa == Sin(alpha)
        sb == Sin(beta)
        ca == Cosine(alpha)
        cb == Cosine(beta)
        c_ab == Cosine(alpha - beta)
        p_squared == ((d * d) \div Unit) - 2 * Unit + 2 * c_ab
                        + ((2 * d * (sa + sb)) \div Unit)
        p == Sqrt(p_squared * Unit)
        a == Atan2((-ca) - cb, d + sa + sb)
        b == Atan2(-2 * Unit, p)
    IN  IF p_squared >= 0
        THEN DubinsPath(self, "LSR", mod2pi(a - alpha - b), p, mod2pi(a - beta - b))
        ELSE NoDubinsPath

\* algorithms.py:290-310
RSL(self, alpha, beta, d) ==
    LET sa == Sin(alpha)
        sb == Sin(beta)
        ca == Cosine(alpha)
        cb == Cosine(beta)
        c_ab == Cosine(alpha - beta)
        p_squared == ((d * d) \div Unit) - 2 * Unit + 2 * c_ab
                        - ((2 * d * (sa + sb)) \div Unit)
        p == Sqrt(p_squared * Unit)
        a == Atan2(ca + cb, d - sa - sb)
        b == Atan2(2 * Unit, p)
    IN  IF p_squared >= 0
        THEN DubinsPath(self, "RSL", mod2pi(alpha - a + b), p, mod2pi(beta - a + b))
        ELSE NoDubinsPath

\* algorithms.py:312-332
RLR(self, alpha, beta, d) ==
    LET sa == Sin(alpha)
        sb == Sin(beta)
        ca == Cosine(alpha)
        cb == Cosine(beta)
        c_ab == Cosine(alpha - beta)
        tmp == (6 * Unit - ((d * d) \div Unit) + 2 * c_ab
                    + ((2 * d * (sa - sb)) \div Unit)) \div 8
        p == mod2pi(TwoPi - Acos(tmp))
        t == mod2pi(alpha - Atan2(ca - cb, d - sa + sb) + (p \div 2))
        q == mod2pi(alpha - beta - t + p)
    IN  IF Abs(tmp) <= Unit
        THEN DubinsPath(self, "RLR", t, p, q)
        ELSE NoDubinsPath

\* algorithms.py:334-354
LRL(self, alpha, beta, d) ==
    LET sa == Sin(alpha)
        sb == Sin(beta)
        ca == Cosine(alpha)
        cb == Cosine(beta)
        c_ab == Cosine(alpha - beta)
        tmp == (6 * Unit - ((d * d) \div Unit) + 2 * c_ab
                    + ((2 * d * (sb - sa)) \div Unit)) \div 8
        p == mod2pi(TwoPi - Acos(tmp))
        t == mod2pi((p \div 2) - alpha - Atan2(ca - cb, d + sa - sb))
        q == mod2pi(beta - alpha - t + p)
    IN  IF Abs(tmp) <= Unit
        THEN DubinsPath(self, "LRL", t, p, q)
        ELSE NoDubinsPath

\* algorithms.py:212  the order in which plan_path tries the families
PathFuncs == <<"LSL", "RSR", "LSR", "RSL", "RLR", "LRL">>

\* path_func(alpha, beta, d) for the family of that name
PathFunc(name, self, alpha, beta, d) ==
    CASE name = "LSL" -> LSL(self, alpha, beta, d)
      [] name = "RSR" -> RSR(self, alpha, beta, d)
      [] name = "LSR" -> LSR(self, alpha, beta, d)
      [] name = "RSL" -> RSL(self, alpha, beta, d)
      [] name = "RLR" -> RLR(self, alpha, beta, d)
      [] name = "LRL" -> LRL(self, alpha, beta, d)

\* the last feasible candidate wins, whatever its length
IsBetter_AnyFeasible(path, best_length) == path # NoDubinsPath

\* algorithms.py:214  `path and path.total_length < best_length`
IsBetter(path, best_length) ==
    path # NoDubinsPath /\ path.total_length < best_length

\* algorithms.py:175-182  DubinsPathPlanner(turning_radius), no plan_path
\* call made yet
DubinsPathPlanner(turning_radius) ==
    [rho |-> turning_radius, start |-> <<0, 0, 0>>, goal |-> <<0, 0, 0>>,
     d |-> 0, alpha |-> 0, beta |-> 0, i |-> 1,
     best_path |-> NoDubinsPath, best_length |-> Inf, pc |-> "idle"]

\* no planner constructed
NoPlanner == [DubinsPathPlanner(Unit) EXCEPT !.pc = "none"]

\* algorithms.py:199-210  plan_path(start, goal) up to its loop
PlanPath(start, goal) ==
    /\ dubins.pc \in {"idle", "done"}
    /\ LET dx == goal[1] - start[1]
           dy == goal[2] - start[2]
           theta == Atan2(dy, dx)
       IN  dubins' = [dubins EXCEPT
                !.start = start, !.goal = goal,
                !.d = (Sqrt(dx * dx + dy * dy) * Unit) \div dubins.rho,
                !.alpha = mod2pi(start[3] - theta),
                !.beta = mod2pi(goal[3] - theta),
                !.i = 1, !.best_path = NoDubinsPath, !.best_length = Inf,
                !.pc = "loop"]
    /\ UNCHANGED <<dbVars, tickVars, busVars, ingestVars, flightVars, hubVars,
                   astar, lawnmower>>

\* algorithms.py:212-216  one pass of `for path_func in [...]`
PlanPathIter ==
    /\ dubins.pc = "loop"
    /\ dubins.i <= Len(PathFuncs)
    /\ LET path == PathFunc(PathFuncs[dubins.i], dubins, dubins.alpha, dubins.beta,
                            dubins.d)
       IN  IF IsBetter(path, dubins.best_length)
           THEN dubins' = [dubins EXCEPT !.i = @ + 1, !.best_path = path,
                                         !.best_length = path.total_length]
           ELSE dubins' = [dubins EXCEPT !.i = @ + 1]
    /\ UNCHANGED <<dbVars, tickVars, busVars, ingestVars, flightVars, hubVars,
                   astar, lawnmower>>

\* algorithms.py:218  return best_path
PlanPathReturn ==
    /\ dubins.pc = "loop"
    /\ dubins.i > Len(PathFuncs)
    /\ dubins' = [dubins EXCEPT !.pc = "done"]
    /\ UNCHANGED <<dbVars, tickVars, busVars, ingestVars, flightVars, hubVars,
                   astar, lawnmower>>

\* turning radii, headings and positions asked for
TurningRadii == {Unit, 2 * Unit}
Headings == {0, HalfPi, Pi}
GoalPositions == {<<4 * Unit, 0>>, <<0, 4 * Unit>>, <<Unit, 0>>, <<3 * Unit, 3 * Unit>>}
StartConfigurations == {<<0, 0, h>> : h \in Headings}
GoalConfigurations == {<<g[1], g[2], h>> : g \in GoalPositions, h \in Headings}

\* nothing planned yet
PlannersFresh ==
    /\ astar = NoPathfinder
    /\ lawnmower = NoPattern
    /\ dubins = NoPlanner

\* ------------------------------------------------------------ initial states
UavRow(st, b, p) ==
    [status |-> st, battery_level |-> b, current_latitude |-> p[1],
     current_longitude |-> p[2], mission_id |-> None]

AlertRow(sev, p) ==
    [status |-> "pending", severity |-> sev, latitude |-> p[1], longitude |-> p[2],
     assigned_uav_id |-> None]

\* What no process has touched yet: empty API tables, idle workers, a bus
\* without traffic, agents as constructed (uav_interface.py:13-18).
BusFresh ==
    /\ sat_alerts = <<>>
    /\ missions = <<>>
    /\ tiles = [t \in TileIds |-> "unmonitored"]
    /\ pc = [w \in Workers |-> "idle"]
    /\ pending_alerts = [w \in Workers |-> <<>>]
    /\ available_uavs = [w \in Workers |-> <<>>]
    /\ alert_idx = [w \in Workers |-> 1]
    /\ assigned_count = [w \in Workers |-> 0]
    /\ out_messages = {}
    /\ broker_log = {}
    /\ inbox = [u \in UavIds |-> {}]
    /\ agent = [u \in UavIds |-> [status |-> "idle", mission |-> None]]

\* main.py:13-24, uav_interface.py:13-18: an agent as constructed, with
\* battery b
NewAgent(b) ==
    [latitude |-> 0, longitude |-> 0, battery |-> b, status |-> "idle",
     mission |-> NoMission]

IngestFresh == api_inbox = {}

\* Threads of the agents that have not run yet.
FlightThreadsFresh ==
    /\ sim_pc = "loop"
    /\ detections = 0
    /\ suav_pc = "loop"
    /\ delivered = 0

FlightFresh ==
    /\ sim = NewAgent(BatteryFull)
    /\ suav = NewAgent(BatteryFull)
    /\ FlightThreadsFresh

\* websocket.py:27-41 and 221: manager = ConnectionManager()
HubFresh ==
    /\ active_connections = <<>>
    /\ channel_subscriptions = [ch \in Channels |-> {}]
    /\ last_ping = <<>>
    /\ endpoint = [ws \in WebSockets |-> "none"]
    /\ socket_open = [ws \in WebSockets |-> TRUE]
    /\ now = 0
    /\ accepted_at = <<>>
    /\ failed_sends = [ws \in WebSockets |-> 0]
    /\ sent = {}
    /\ bc = NoBroadcast
    /\ events = 0

Fresh == BusFresh /\ IngestFresh /\ FlightFresh /\ HubFresh /\ PlannersFresh

\* battery_level values a UAV row may hold (per cent)
Batteries == {10, 30, 50, 90}

\* Rows of table uavs: free UAVs of every battery level at (5, 20), two at
\* (15, 20), one registered through the API (column default "available"),
\* one on the equator.
FleetRows ==
    {UavRow("idle", b, <<5, 20>>) : b \in Batteries}
        \cup {UavRow("idle", b, <<15, 20>>) : b \in {50, 90}}
        \cup {UavRow("available", 90, <<5, 20>>), UavRow("idle", 90, <<0, 20>>)}

\* Rows of table satellite_alerts: (10, 20) is as far from (5, 20) as from
\* (15, 20); (5, 25) is nearer to (5, 20).
AlertRows ==
    {AlertRow("low", <<10, 20>>), AlertRow("high", <<5, 25>>)}

\* A fleet and a set of pending alerts as the tables may hold them.
InitSerial ==
    /\ Fresh
    /\ uavs \in [UavIds -> FleetRows]
    /\ satellite_alerts \in [AlertIds -> AlertRows]
    /\ broker_up \in BOOLEAN
    /\ connected = TRUE
    /\ subscribed = [u \in UavIds |-> FALSE]

\* A charged idle fleet at one place, pending alerts at another.
Init ==
    /\ Fresh
    /\ uavs = [u \in UavIds |-> UavRow("idle", 90, <<5, 20>>)]
    /\ satellite_alerts = [a \in AlertIds |-> AlertRow("high", <<10, 20>>)]
    /\ broker_up = TRUE
    /\ connected = TRUE
    /\ subscribed = [u \in UavIds |-> FALSE]

\* The same fleet with any number of pending alerts, the API's bus client not
\* yet connected.
InitBus ==
    /\ Fresh
    /\ uavs = [u \in UavIds |-> UavRow("idle", 90, <<5, 20>>)]
    /\ \E n \in 0..NumAlerts :
            satellite_alerts = [a \in 1..n |-> AlertRow("high", <<10, 20>>)]
    /\ broker_up \in BOOLEAN
    /\ connected = FALSE
    /\ subscribed = [u \in UavIds |-> FALSE]

\* ------------------------------------------------------------ specifications
\* No task is running.
Quiet == \A w \in Workers : pc[w] = "idle"

Tick(w) == TickStart(w) \/ TickIter(w) \/ TickReturn(w)

\* One tick at a time, nothing else writing while it runs.
SerialTick(w) == (Quiet /\ TickStart(w)) \/ TickIter(w) \/ TickReturn(w)

Ingest ==
    \E t \in TileIds, p \in ApiPriorities : Quiet /\ CreateSatelliteAlertV1(t, p)

NextSerial == \E w \in Workers : SerialTick(w)

SpecSerial == InitSerial /\ [][NextSerial]_vars

Sortie ==
    \E u \in UavIds, t \in TileIds, p \in SortiePriorities : AssignUavSortie(u, t, p)

Patch ==
    \E u \in UavIds, st \in PatchStatuses \cup {Unset}, b \in PatchBatteries \cup {None} :
        UpdateUavStatus(u, st, b)

\* Celery workers run ticks concurrently with the monitor and the API.
Next ==
    \/ \E w \in Workers : Tick(w)
    \/ MonitorUavStatus
    \/ Sortie
    \/ Patch

Spec == Init /\ [][Next]_vars

NextBus ==
    \/ \E w \in Workers : SerialTick(w)
    \/ Ingest
    \/ Sortie
    \/ BrokerFail
    \/ BrokerRecover
    \/ ApiOnConnect
    \/ ApiResend
    \/ \E u \in UavIds : AgentOnConnect(u)
    \/ \E u \in UavIds : AgentOnMessage(u)

SpecBus == InitBus /\ [][NextBus]_vars

\* main.py:131-144: publish_detection on topic "detections", which the
\* API's filter "detections/#" matches.
DetectionMsg(a) == [topic |-> Topic("detections", 0, ""), ref |-> a]

PublishDetection(a) ==
    /\ broker_up
    /\ DetectionMsg(a) \notin broker_log
    /\ broker_log' = broker_log \cup {DetectionMsg(a)}
    /\ api_inbox' = IF connected /\ ApiTopicMatches(DetectionMsg(a).topic)
                    THEN api_inbox \cup {DetectionMsg(a)} ELSE api_inbox
    /\ UNCHANGED <<dbVars, tickVars, broker_up, connected, out_messages,
                   subscribed, inbox, agent, flightVars, hubVars, planVars>>

\* The agents' telemetry and detections on the bus, and the API's client.
NextTelemetry ==
    \/ BrokerFail
    \/ BrokerRecover
    \/ ApiOnConnect
    \/ \E u \in UavIds : AgentOnConnect(u)
    \/ \E u \in UavIds : PublishTelemetry(u)
    \/ \E a \in AlertIds : PublishDetection(a)
    \/ ApiOnMessage

SpecTelemetry == InitBus /\ [][NextTelemetry]_vars

\* Missions from their creation on: ticks, sorties and the agents that are
\* told about them.  Every step that can be taken eventually is.
NextMission ==
    \/ \E w \in Workers : SerialTick(w)
    \/ Sortie
    \/ \E u \in UavIds : AgentOnConnect(u)
    \/ \E u \in UavIds : AgentOnMessage(u)

SpecMission == Init /\ [][NextMission]_vars /\ WF_vars(NextMission)

\* bus messages that reach an agent's on_message
Deliveries ==
    ({"mission"} \X MissionPayloads) \cup ({"command"} \X CommandPayloads)

\* batteries a UAVSimulator may have when a mission arrives: full, or what
\* earlier flights have left
SimBatteries == {BatteryFull, 210}

InitSimulator ==
    /\ BusFresh /\ IngestFresh /\ HubFresh /\ FlightThreadsFresh /\ PlannersFresh
    /\ uavs = [u \in UavIds |-> UavRow("idle", 90, <<5, 20>>)]
    /\ satellite_alerts = [a \in AlertIds |-> AlertRow("high", <<10, 20>>)]
    /\ broker_up = TRUE
    /\ connected = TRUE
    /\ subscribed = [u \in UavIds |-> FALSE]
    /\ \E b \in SimBatteries : sim = NewAgent(b)
    /\ suav = NewAgent(BatteryFull)

\* uav_sim/main.py: one UAVSimulator, its run loop and its network thread.
NextSimulator ==
    \/ \E d \in Deliveries : SimOnMessage(d[1], d[2])
    \/ SimulateMovement
    \/ SimAfterSleep

SpecSimulator == InitSimulator /\ [][NextSimulator]_vars

\* uav_sim/app/simulated_uav.py: one SimulatedUAV and its network thread.
NextSimulatedUAV ==
    \/ \E d \in Deliveries : SuavOnMessage(d[1], d[2])
    \/ SuavLoop

\* loop() is the agent's periodic tick: it keeps being called.
SpecSimulatedUAV == Init /\ [][NextSimulatedUAV]_vars /\ WF_vars(SuavLoop)

\* The hub: endpoints of the connected sockets and broadcasts.
NextHub ==
    \/ \E ws \in WebSockets : Connect(ws)
    \/ \E ws \in WebSockets, token \in Tokens : AuthFrame(ws, token)
    \/ \E ws \in WebSockets, channels \in ChannelLists : SubscribeFrame(ws, channels)
    \/ \E ws \in WebSockets, channels \in ChannelLists : UnsubscribeFrame(ws, channels)
    \/ \E ws \in WebSockets : ReceiveDisconnect(ws)
    \/ \E ws \in WebSockets : PeerStalls(ws)
    \/ \E channel \in Channels : BroadcastBegin(channel)
    \/ BroadcastSend
    \/ BroadcastEnd
    \/ BroadcastRaises

SpecHub == Init /\ [][NextHub]_vars

\* The hub with its heartbeat monitor and the clock.
NextHeartbeat ==
    \/ \E ws \in WebSockets : Connect(ws)
    \/ \E ws \in WebSockets, token \in Tokens : AuthFrame(ws, token)
    \/ \E ws \in WebSockets, channels \in ChannelLists : SubscribeFrame(ws, channels)
    \/ \E ws \in WebSockets : PingFrame(ws)
    \/ \E ws \in WebSockets : ReceiveDisconnect(ws)
    \/ HeartbeatMonitor

SpecHeartbeat == Init /\ [][NextHeartbeat]_vars

\* The services untouched and a pathfinder constructed over one of the grids.
InitAStar ==
    /\ BusFresh /\ IngestFresh /\ FlightFresh /\ HubFresh
    /\ uavs = [u \in UavIds |-> UavRow("idle", 90, <<5, 20>>)]
    /\ satellite_alerts = [a \in AlertIds |-> AlertRow("high", <<10, 20>>)]
    /\ broker_up = TRUE
    /\ connected = TRUE
    /\ subscribed = [u \in UavIds |-> FALSE]
    /\ astar \in Pathfinders
    /\ lawnmower = NoPattern
    /\ dubins = NoPlanner

\* find_path calls on the pathfinder, one at a time
NextAStar ==
    \/ \E start \in Endpoints(astar), goal \in Endpoints(astar) : FindPath(start, goal)
    \/ FindPathIter
    \/ FindPathReturn

SpecAStar == InitAStar /\ [][NextAStar]_vars

\* generate_lawnmower calls, one at a time
NextLawnmower ==
    \/ \E w \in LawnWidths, h \in LawnHeights, s \in LawnSpacings :
            GenerateLawnmower(w, h, s)
    \/ LawnmowerPass
    \/ LawnmowerReturn

SpecLawnmower == Init /\ [][NextLawnmower]_vars

\* The services untouched and a Dubins planner constructed.
InitDubins ==
    /\ BusFresh /\ IngestFresh /\ FlightFresh /\ HubFresh
    /\ uavs = [u \in UavIds |-> UavRow("idle", 90, <<5, 20>>)]
    /\ satellite_alerts = [a \in AlertIds |-> AlertRow("high", <<10, 20>>)]
    /\ broker_up = TRUE
    /\ connected = TRUE
    /\ subscribed = [u \in UavIds |-> FALSE]
    /\ astar = NoPathfinder
    /\ lawnmower = NoPattern
    /\ dubins \in {DubinsPathPlanner(rho) : rho \in TurningRadii}

\* plan_path calls on the planner, one at a time
NextDubins ==
    \/ \E start \in StartConfigurations, goal \in GoalConfigurations :
            PlanPath(start, goal)
    \/ PlanPathIter
    \/ PlanPathReturn

SpecDubins == InitDubins /\ [][NextDubins]_vars

\* The operations of the ConnectionManager one at a time: the frames of the
\* endpoints, and broadcasts that no frame interrupts.
NextRegistry ==
    \/ /\ ~bc.running
       /\ \E ws \in WebSockets :
            \/ Connect(ws)
            \/ \E t \in Tokens : AuthFrame(ws, t)
            \/ \E cl \in ChannelLists : SubscribeFrame(ws, cl)
            \/ \E cl \in ChannelLists : UnsubscribeFrame(ws, cl)
            \/ PingFrame(ws)
            \/ ReceiveDisconnect(ws)
            \/ PeerStalls(ws)
    \/ \E ch \in {"telemetry"} : BroadcastBegin(ch)
    \/ BroadcastSend
    \/ BroadcastEnd

SpecRegistry == Init /\ [][NextRegistry]_vars

\* battery levels of the fleet shortly above the eligibility threshold
DrainBatteries == {31, 33}

\* An idle fleet at one place with batteries that earlier flights have left
\* low, pending alerts at another.
InitDrain ==
    /\ Fresh
    /\ uavs \in [UavIds -> {UavRow("idle", b, <<5, 20>>) : b \in DrainBatteries}]
    /\ satellite_alerts = [a \in AlertIds |-> AlertRow("high", <<10, 20>>)]
    /\ broker_up = TRUE
    /\ connected = TRUE
    /\ subscribed = [u \in UavIds |-> FALSE]

\* The three Celery tasks of tasks.py, interleaved.
NextDrain ==
    \/ \E w \in Workers : Tick(w)
    \/ MonitorUavStatus
    \/ SimulateBatteryDrain

SpecDrain == InitDrain /\ [][NextDrain]_vars

\* The simulator with its run loop always scheduled again (main.py:154-160:
\* `while self.running` with time.sleep(1)).
SpecRecharge ==
    InitSimulator /\ [][NextSimulator]_vars
        /\ WF_vars(SimulateMovement) /\ WF_vars(SimAfterSleep)

\* ------------------------------------------------------------ claims
\* The specification's status "available" is the scheduler store's "idle"
\* (models.py:26, tests/test_e2e_full.py:29); its "queued" is "pending".
ClaimEligible(row) == row.status = "idle" /\ row.battery_level >= 30

ActiveMissionStatuses == {"pending", "assigned", "active"}

\* What UAV u is currently the assignee of: active missions and assigned alerts.
AssignmentsOf(u) ==
    {<<"mission", i>> : i \in {j \in DOMAIN missions :
            missions[j].uav_id = u /\ missions[j].status \in ActiveMissionStatuses}}
        \cup {<<"alert", a>> : a \in {b \in Alerts :
            satellite_alerts[b].status = "assigned"
                /\ satellite_alerts[b].assigned_uav_id = u}}

\* C1 (single assignment): in every reachable state no UAV is the assignee of
\* two active missions or assigned alerts at the same time.
C1_SingleAssignment == \A u \in UavIds : Cardinality(AssignmentsOf(u)) <= 1

\* C2 (happy path): when a tick finishes, every alert that came in through
\* the ingest interface before it has been served (the alert assigned, its
\* tile investigating, a mission for the tile assigned to a UAV in status
\* assigned) if an available UAV with battery 90 and a known position is
\* still left over.
C2_HappyPath ==
    \A w \in Workers : pc[w] = "done" =>
        \A i \in DOMAIN sat_alerts :
            (\E u \in UavIds : uavs[u].status = "idle"
                                /\ uavs[u].battery_level = 90 /\ HasPosition(uavs[u]))
            => /\ sat_alerts[i].status = "assigned"
               /\ tiles[sat_alerts[i].tile_id] = "investigating"
               /\ \E j \in DOMAIN missions :
                    /\ missions[j].tile_id = sat_alerts[i].tile_id
                    /\ missions[j].status = "assigned"
                    /\ uavs[missions[j].uav_id].status = "assigned"

\* priority of a satellite_alerts row: the rank of its severity
Rank(sev) == CASE sev = "low" -> 1 [] sev = "medium" -> 2 [] sev = "high" -> 3
               [] sev = "critical" -> 4

\* C3 (priority monotonicity): when a tick finishes, a pending alert of lower
\* priority has been given a UAV only if every pending alert of higher
\* priority of the same tick has been given one (the higher one was matched
\* first).
C3_PriorityFirst ==
    \A w \in Workers : pc[w] = "done" =>
        \A a1, a2 \in Range(pending_alerts[w]) :
            (Rank(satellite_alerts[a1].severity) > Rank(satellite_alerts[a2].severity)
                /\ satellite_alerts[a2].status = "assigned")
            => satellite_alerts[a1].status = "assigned"

\* C4 (eligibility): the UAVs a tick snapshots as candidates are exactly the
\* UAVs that are available with battery >= 30.
C4_Eligibility ==
    [][\A w \in Workers : (pc[w] = "idle" /\ pc'[w] = "loop") =>
            Range(available_uavs'[w]) = {u \in UavIds : ClaimEligible(uavs[u])}]_vars

\* C5 (no eligible UAV): a tick that starts while no UAV is eligible snapshots
\* no candidate and all the pending alerts; a tick without candidates goes to
\* its end without changing an alert, a UAV, a mission or a tile and without
\* publishing, so the same alerts are pending for the next tick.
C5_NoEligibleUav ==
    [][\A w \in Workers :
        /\ (pc[w] = "idle" /\ pc'[w] = "loop" /\ ~\E u \in UavIds : ClaimEligible(uavs[u]))
            => /\ available_uavs'[w] = <<>>
               /\ Range(pending_alerts'[w]) =
                    {a \in Alerts : satellite_alerts[a].status = "pending"}
        /\ (pc[w] = "loop" /\ available_uavs[w] = <<>> /\ pc'[w] # pc[w])
            => /\ pc'[w] = "done"
               /\ UNCHANGED <<dbVars, broker_log, out_messages, inbox>>]_vars

\* C5 witness: a tick has run to its end with pending alerts in its list, no
\* candidate, and a fleet in which no UAV is eligible or was assigned.
C5_Witness ==
    \E w \in Workers :
        /\ pc[w] = "done"
        /\ pending_alerts[w] # <<>>
        /\ available_uavs[w] = <<>>
        /\ \A u \in UavIds : ~ClaimEligible(uavs[u]) /\ uavs[u].status # "assigned"
        /\ \A a \in Range(pending_alerts[w]) : satellite_alerts[a].status = "pending"
        /\ broker_log = {}

\* u is at least as good a match for alert row al as c: nearer, or as near
\* with more battery, or as near with the same battery and the lower id.
Preferred(al, u, c) ==
    LET du == calculate_distance(al.latitude, al.longitude,
                                 uavs[u].current_latitude, uavs[u].current_longitude)
        dc == calculate_distance(al.latitude, al.longitude,
                                 uavs[c].current_latitude, uavs[c].current_longitude)
    IN  \/ du < dc
        \/ du = dc /\ uavs[u].battery_level > uavs[c].battery_level
        \/ du = dc /\ uavs[u].battery_level = uavs[c].battery_level /\ u <= c

\* C6 (UAV selection): the UAV a tick assigns to an alert is, among the
\* candidates of the tick that have a position the scan reads, the nearest
\* one, with ties going to the higher battery and then to the lower id.
C6_Selection ==
    [][\A w \in Workers, a \in Alerts :
        (pc[w] = "loop" /\ ~LoopEnds(w) /\ pending_alerts[w][alert_idx[w]] = a
            /\ satellite_alerts'[a] # satellite_alerts[a])
        => \A c \in Range(available_uavs[w]) :
                HasPosition(uavs[c]) =>
                    Preferred(satellite_alerts[a], satellite_alerts'[a].assigned_uav_id, c)]_vars

\* C7 (assignment re-checks availability): whenever a tick assigns a UAV to
\* an alert, that UAV is available at that moment.
C7_AssignOnlyAvailable ==
    [][\A a \in Alerts : satellite_alerts'[a] # satellite_alerts[a] =>
            uavs[satellite_alerts'[a].assigned_uav_id].status = "idle"]_vars

\* C8 (single runner): at no time are two executions of the tick in progress.
C8_SingleRunner == Cardinality({w \in Workers : pc[w] # "idle"}) <= 1

\* the messages that tell a UAV to fly a mission
IsMissionCommand(m) == m.topic.prefix \in {"uav", "commands"} /\ m.topic.suffix # "command"

\* C9 (command delivery): every mission command the broker accepts is on
\* topic commands/<uav_id> and, when the agent of that UAV is connected and
\* subscribed, is handed to that agent.
C9_CommandDelivery ==
    [][\A m \in broker_log' \ broker_log : IsMissionCommand(m) =>
            /\ m.topic = Topic("commands", m.topic.uav, "")
            /\ subscribed[m.topic.uav] => m \in inbox'[m.topic.uav]]_vars

\* C10 (buffered publishing): every alert and command the API has published,
\* and every mission a tick has assigned, has its message at the broker or
\* in the publisher's local queue.
C10_NothingLost ==
    /\ \A i \in DOMAIN sat_alerts : AlertMsg(i) \in broker_log \cup out_messages
    /\ \A j \in DOMAIN missions :
            CommandMsg(missions[j].uav_id, j) \in broker_log \cup out_messages
    /\ \A a \in Alerts : satellite_alerts[a].status = "assigned" =>
            MissionMsg(satellite_alerts[a].assigned_uav_id, a) \in broker_log

IsTelemetry(m) == m.topic.suffix = "telemetry"

\* C11 (telemetry ingestion): every telemetry payload the broker accepts on
\* uav/<uav_id>/telemetry while the API's client is connected is handed to
\* that client, and when the client has processed it the registry row of the
\* UAV holds the payload's position and battery.
C11_TelemetryIngested ==
    [][/\ \A m \in broker_log' \ broker_log :
            (IsTelemetry(m) /\ connected) => m \in api_inbox'
       /\ \A m \in api_inbox \ api_inbox' :
            IsTelemetry(m) =>
                /\ uavs'[m.topic.uav].current_latitude = TelemetryPayloads[m.ref].latitude
                /\ uavs'[m.topic.uav].current_longitude = TelemetryPayloads[m.ref].longitude
                /\ uavs'[m.topic.uav].battery_level = TelemetryPayloads[m.ref].battery]_vars

TerminalMissionStatuses == {"completed", "failed", "aborted"}

\* C12 (mission termination): every mission in status assigned or active
\* eventually is in one of the statuses completed, failed, aborted.
C12_MissionTerminates ==
    \A j \in 1..MaxMissions :
        (j \in DOMAIN missions /\ missions[j].status \in {"assigned", "active"})
            ~> (j \in DOMAIN missions /\ missions[j].status \in TerminalMissionStatuses)

\* the statuses a UAV may have while it holds a mission
MissionHolderStatuses == {"assigned", "in_mission", "flying", "returning"}

\* C13 (UAV mission/status invariant): a registry row or an agent with a
\* non-null mission has status assigned, in_mission (flying) or returning.
C13_MissionImpliesBusy ==
    /\ \A u \in UavIds : uavs[u].mission_id # None => uavs[u].status \in MissionHolderStatuses
    /\ \A u \in UavIds : agent[u].mission # None => agent[u].status \in MissionHolderStatuses
    /\ sim.mission # NoMission => sim.status \in MissionHolderStatuses
    /\ suav.mission # NoMission => suav.status \in MissionHolderStatuses

\* C14 (cancellation): for an agent that is executing a mission, handling a
\* message {command: "return"} or {command: "land"} on its command topic
\* leaves it with no mission and status idle.
C14_Cancellation ==
    \A c \in {"return", "land"} :
        (MissionTruthy(suav.mission) /\ suav.status = "flying")
            => /\ on_message(suav, "command", CommandOfCommand(c)).mission = NoMission
               /\ on_message(suav, "command", CommandOfCommand(c)).status = "idle"

\* C15 (protocol violations never crash a worker): whatever payloads an agent
\* has received, its periodic tick is still running.
C15_WorkerSurvives == sim_pc # "dead" /\ suav_pc # "raised"

\* C16 (simulated mission execution terminates): a simulated agent flying a
\* mission that has a target eventually has no mission and status idle.
C16_ExecutionTerminates ==
    (suav.status = "flying" /\ suav.mission.kind = "dict"
        /\ suav.mission.target_latitude # None)
        ~> (suav.mission = NoMission /\ suav.status = "idle")

\* C17 (fan-out matching): when a broadcast ends, every socket that was
\* subscribed to the channel from its start to its end and still reads has
\* been sent the event; and an event is sent only to a socket whose channel
\* selection contains the channel at that moment.
C17_FanOutMatching ==
    [][/\ (bc.running /\ ~bc'.running) =>
            \A ws \in bc.initial \cap channel_subscriptions[bc.channel] :
                socket_open[ws] => <<ws, bc.channel, bc.event>> \in sent'
       /\ \A d \in sent' \ sent :
            d[2] \in Channels =>
                /\ d[1] \in DOMAIN active_connections
                /\ d[2] \in active_connections[d[1]].channels]_vars

\* C18 (only authenticated subscribers): every member of a channel's
\* subscriber set is a connection of the manager that has completed a
\* successful auth frame.
C18_OnlyAuthenticated ==
    \A ch \in Channels : \A ws \in channel_subscriptions[ch] :
        ws \in DOMAIN active_connections /\ active_connections[ws].authenticated

\* C18 witness: one socket is authenticated and subscribed; another has sent
\* a subscribe frame without authenticating, was answered with an error and
\* is in no channel.
C18_Witness ==
    \E a, b \in WebSockets :
        /\ a \in channel_subscriptions["telemetry"]
        /\ b \in DOMAIN active_connections
        /\ ~active_connections[b].authenticated
        /\ <<b, "error", 0>> \in sent
        /\ \A ch \in Channels : b \notin channel_subscriptions[ch]

\* when the server last heard of a socket: its last ping, or its acceptance
LastHeard(ws) == IF ws \in DOMAIN last_ping THEN last_ping[ws] ELSE accepted_at[ws]

\* C19 (heartbeat): after a pass of the heartbeat monitor no socket that has
\* been silent for more than 60 s is still a connection of the manager or a
\* member of a channel.
C19_Heartbeat ==
    \A ws \in DOMAIN accepted_at :
        now - LastHeard(ws) > timeout_threshold
            => /\ ws \notin DOMAIN active_connections
               /\ \A ch \in Channels : ws \notin channel_subscriptions[ch]

\* the documented default of N
SlowSubscriberLimit == 64

\* C20 (slow-subscriber policy): a broadcast drops a subscriber only when
\* that subscriber has had N failed deliveries.
C20_SlowSubscriber ==
    [][\A ws \in WebSockets :
        (bc.running /\ ~bc'.running /\ ws \in bc.disconnected
            /\ ws \in DOMAIN active_connections /\ ws \notin DOMAIN active_connections')
        => failed_sends[ws] >= SlowSubscriberLimit]_vars

\* the free in-bounds cells of a grid
FreeCells(self) == GridCells(self) \ self.obstacles

\* a and b are 8-neighbours
Adjacent(a, b) == a # b /\ Abs(a[1] - b[1]) <= 1 /\ Abs(a[2] - b[2]) <= 1

RECURSIVE ReachableFrom(_, _)
\* the free cells that 8-connected steps through free cells reach from S
ReachableFrom(self, S) ==
    LET further == {c \in FreeCells(self) : \E s \in S : Adjacent(s, c)}
    IN  IF further \subseteq S THEN S ELSE ReachableFrom(self, S \cup further)

\* the goal is reachable from the start through free in-bounds cells
GoalReachable(self) ==
    /\ self.start \in FreeCells(self)
    /\ self.goal \in ReachableFrom(self, {self.start})

\* C21 (A* result validity): find_path returns a path exactly when the goal
\* is reachable from the start through free in-bounds cells; a returned path
\* begins at start, ends at goal, steps between 8-neighbours and contains no
\* blocked cell.
C21_PathValidity ==
    astar.pc = "done" =>
        /\ (astar.path # NoPath) <=> GoalReachable(astar)
        /\ astar.path # NoPath =>
                /\ astar.path[1] = astar.start
                /\ astar.path[Len(astar.path)] = astar.goal
                /\ \A i \in 1..(Len(astar.path) - 1) :
                        Adjacent(astar.path[i], astar.path[i + 1])
                /\ \A i \in 1..Len(astar.path) : astar.path[i] \notin astar.obstacles

RECURSIVE PathCost(_)
\* cost of a path: 1.0 for a cardinal step, 1.4 for a diagonal one
PathCost(path) ==
    IF Len(path) <= 1
    THEN 0
    ELSE PathCost(SubSeq(path, 1, Len(path) - 1))
            + (IF path[Len(path) - 1][1] # path[Len(path)][1]
                    /\ path[Len(path) - 1][2] # path[Len(path)][2]
               THEN DiagonalCost
               ELSE CardinalCost)

\* the least number of a non-empty set
Least(S) == CHOOSE x \in S : \A y \in S : x <= y

RECURSIVE CheapestFrom(_, _)
\* least cost of an obstacle-free 8-connected path from the start to every
\* cell it reaches, by relaxation from dist until nothing improves
CheapestFrom(self, dist) ==
    LET known == DOMAIN dist
        reach == known \cup {c \in FreeCells(self) : \E s \in known : Adjacent(s, c)}
        via(c) == {dist[s] + PathCost(<<s, c>>) : s \in {k \in known : Adjacent(k, c)}}
        next == [c \in reach |->
                    Least(via(c) \cup (IF c \in known THEN {dist[c]} ELSE {}))]
    IN  IF next = dist THEN dist ELSE CheapestFrom(self, next)

\* C22 (A* optimality): the cost of a returned path from a free start equals
\* the least cost of all obstacle-free 8-connected paths from start to goal.
C22_PathOptimal ==
    (astar.pc = "done" /\ astar.path # NoPath /\ astar.start \in FreeCells(astar)) =>
        PathCost(astar.path)
            = CheapestFrom(astar, [c \in {astar.start} |-> 0])[astar.goal]

\* the least integer not below a / b, for positive a and b
Ceiling(a, b) == (a + b - 1) \div b

\* C23 (lawnmower waypoint count): generate_lawnmower returns exactly
\* 2 * ceil(H / s) waypoints, also when H is a multiple of s.
C23_WaypointCount ==
    lawnmower.pc = "done" =>
        Len(lawnmower.waypoints) = 2 * Ceiling(lawnmower.height_m, lawnmower.spacing_m)

\* the candidates of the six families that are feasible
FeasibleCandidates(self) ==
    {PathFunc(PathFuncs[i], self, self.alpha, self.beta, self.d) :
        i \in 1..Len(PathFuncs)} \ {NoDubinsPath}

\* start = (0, 0, 0), goal = (4, 0, 0), rho = 1
DubinsEquality ==
    /\ dubins.start = <<0, 0, 0>>
    /\ dubins.goal = <<4 * Unit, 0, 0>>
    /\ dubins.rho = Unit

\* C24 (Dubins weak optimality): plan_path returns a feasible candidate of
\* the six families of least total length, and nothing when none is feasible;
\* its total length is (t + p + q) * rho; from (0, 0, 0) to (4, 0, 0) with
\* rho = 1 the length is 4.
C24_DubinsWeakOptimality ==
    dubins.pc = "done" =>
        LET best == dubins.best_path
            candidates == FeasibleCandidates(dubins)
        IN  /\ (best = NoDubinsPath) <=> (candidates = {})
            /\ best # NoDubinsPath =>
                    /\ best \in candidates
                    /\ \A c \in candidates : best.total_length <= c.total_length
                    /\ best.total_length
                        = ((best.lengths[1] + best.lengths[2] + best.lengths[3])
                                * dubins.rho) \div Unit
            /\ DubinsEquality => best.total_length = 4 * Unit

\* the planner has answered the equality scenario with the straight line
C24_Witness ==
    /\ dubins.pc = "done"
    /\ DubinsEquality
    /\ dubins.best_path.path_type = "LSL"
    /\ dubins.best_path.lengths = <<0, 4 * Unit, 0>>
    /\ dubins.best_path.total_length = 4 * Unit

\* C25 (assignment and dispatch agree): whenever no tick is running, an alert
\* in status assigned whose UAV is in status assigned has had its mission
\* command published to that UAV, also after a tick that failed to connect.
C25_AssignmentDispatched ==
    Quiet =>
        \A a \in Alerts :
            (/\ satellite_alerts[a].status = "assigned"
             /\ uavs[satellite_alerts[a].assigned_uav_id].status = "assigned")
                => MissionMsg(satellite_alerts[a].assigned_uav_id, a) \in broker_log

\* C26 (assigned alerts reference working UAVs): under any interleaving of
\* the three scheduler tasks every alert in status assigned references a UAV
\* in status assigned or flying.
C26_AssignedToWorkingUav ==
    \A a \in Alerts :
        satellite_alerts[a].status = "assigned"
            => uavs[satellite_alerts[a].assigned_uav_id].status \in {"assigned", "flying"}

\* C27 (recharge completes): a simulator that has entered status charging
\* eventually has battery 100 and status idle.
C27_RechargeCompletes ==
    (sim.status = "charging") ~> (sim.battery = BatteryFull /\ sim.status = "idle")

\* the UAVs of a list that have a recorded latitude and longitude
Positioned(us) ==
    {c \in Range(us) : uavs[c].current_latitude # None /\ uavs[c].current_longitude # None}

\* C28 (every positioned UAV is a candidate): when a tick handles an alert
\* and some UAV of its snapshot has a recorded latitude and longitude, also 0,
\* the alert is assigned, to a UAV no farther than any of them.
C28_PositionedIsCandidate ==
    [][\A w \in Workers :
        (pc[w] = "loop" /\ ~LoopEnds(w) /\ Positioned(available_uavs[w]) # {}
            /\ (alert_idx'[w] # alert_idx[w] \/ pc'[w] # pc[w]))
        => LET a == pending_alerts[w][alert_idx[w]]
               alert == satellite_alerts[a]
               far(u) == calculate_distance(alert.latitude, alert.longitude,
                            uavs[u].current_latitude, uavs[u].current_longitude)
           IN  /\ satellite_alerts'[a].status = "assigned"
               /\ \A c \in Positioned(available_uavs[w]) :
                    far(satellite_alerts'[a].assigned_uav_id) <= far(c)]_vars

\* C29 (broadcast under concurrent membership change): a broadcast that other
\* connections' subscribe, unsubscribe or disconnect operations interleave
\* with ends without an error, having sent to every connection that was
\* subscribed when it began and still is when it ends.
C29_BroadcastCompletes ==
    [][(bc.running /\ ~bc'.running) =>
            /\ ~SetChangedSize
            /\ (bc.initial \cap channel_subscriptions[bc.channel]) \subseteq bc.visited]_vars

\* C30 (fan-out registry consistency): a connection is in the subscriber set
\* of a channel exactly when the channel is in its own channel set, and every
\* connection in last_ping is an active connection.
C30_RegistryConsistent ==
    /\ \A ch \in Channels, ws \in WebSockets :
            ws \in channel_subscriptions[ch]
                <=> (ws \in DOMAIN active_connections
                        /\ ch \in active_connections[ws].channels)
    /\ \A ws \in DOMAIN last_ping : ws \in DOMAIN active_connections

====
